---- MODULE Spec2Model ----
(***************************************************************************)
(* A model of the @contiguity/base client (src/src/index.js, the module    *)
(* of lines 1-314: Util, Base, Contiguity).  Lines 315-571 of the file     *)
(* hold an earlier snapshot of the same module (no calculateExpires, no    *)
(* putMany, no buckets); it is not what is modelled here.                  *)
(*                                                                         *)
(* One invocation of a public operation of Base is modelled at a time:     *)
(*   idle --Put/Insert/Get/Delete/Update/Fetch/PutMany--> sent             *)
(*        --the transport's outcome--> done --Return--> idle               *)
(* The step out of idle is the synchronous part of the operation up to the *)
(* `await fetch(url, options)` of _fetch; the step out of sent is the rest *)
(* of _fetch and of the operation that awaited it.                         *)
(*                                                                         *)
(* JavaScript values are tagged records, one field per kind, so that       *)
(* values of different kinds can be compared:                              *)
(*   [undef |-> TRUE]  undefined        [null |-> TRUE]  null              *)
(*   [num |-> n]       a number         [str |-> s]      a string          *)
(*   [obj |-> f]       an object, f a function from property names         *)
(*   [arr |-> s]       an array         [date |-> ms]    a Date            *)
(* The order of an object's properties is kept only where the code         *)
(* depends on it (the updates argument of update, a sequence of entries).  *)
(***************************************************************************)
EXTENDS Integers, Sequences, FiniteSets, TLC

VARIABLES
    pc,       \* "idle" | "sent" | "done": the position of the invocation
    call,     \* the operation invoked and its arguments
    reads,    \* the values Date.now() returned to this invocation, in order
    request,  \* the HTTP request handed to the transport: method, path, body
    nreq,     \* the number of HTTP requests this invocation has issued
    outcome,  \* what the transport did with the request
    result,   \* the value the operation's promise resolved to
    threw,    \* "none", or the error the operation's promise rejected with
    log,      \* the console output of this invocation, in order
    nowMs,    \* the wall clock, in milliseconds since the epoch
    debug,    \* db.debug, fixed by the constructor
    owned     \* the caller's own items or updates object as the operation leaves it

vars == <<pc, call, reads, request, nreq, outcome, result, threw, log, nowMs, debug, owned>>

(***************************************************************************)
(* Bounds of the model.                                                    *)
(***************************************************************************)
\* the longest list passed to put and putMany
MaxItems == 2
\* the largest number of fields of an update request
MaxFields == 2
\* the clock advances at most this many times
MaxTicks == 3
\* the clock advances by this many milliseconds at a time
TickMs == 500

(***************************************************************************)
(* JavaScript values.                                                      *)
(***************************************************************************)
Undefined == [undef |-> TRUE]
Null == [null |-> TRUE]
Num(n) == [num |-> n]
Str(s) == [str |-> s]
Obj(f) == [obj |-> f]
Arr(s) == [arr |-> s]
DateOf(ms) == [date |-> ms]

IsUndefined(v) == "undef" \in DOMAIN v
IsNum(v) == "num" \in DOMAIN v
IsStr(v) == "str" \in DOMAIN v
IsObj(v) == "obj" \in DOMAIN v
IsArr(v) == "arr" \in DOMAIN v
IsDate(v) == "date" \in DOMAIN v

\* the object with no property
EmptyProps == [p \in {} |-> Undefined]

\* ToBoolean: what `if (v)`, `a || b` and `a && b` test
Truthy(v) ==
    CASE "undef" \in DOMAIN v -> FALSE
      [] "null" \in DOMAIN v -> FALSE
      [] "num" \in DOMAIN v -> v.num # 0
      [] "str" \in DOMAIN v -> v.str # ""
      [] OTHER -> TRUE

\* typeof v
TypeOf(v) ==
    CASE "undef" \in DOMAIN v -> "undefined"
      [] "num" \in DOMAIN v -> "number"
      [] "str" \in DOMAIN v -> "string"
      [] OTHER -> "object"

\* v.p for a v that is not undefined or null: a missing property reads undefined
Get(v, p) ==
    IF IsObj(v) /\ p \in DOMAIN v.obj THEN v.obj[p] ELSE Undefined

\* f with property p set to v (f.p = v, or { ...f, p: v })
SetProp(f, p, v) ==
    [x \in (DOMAIN f) \cup {p} |-> IF x = p THEN v ELSE f[x]]

\* the own properties { ...v } copies: those of an object, none of null
Spread(v) ==
    IF IsObj(v) THEN v.obj ELSE EmptyProps

\* Array.isArray(v)
IsArray(v) == IsArr(v)

(***************************************************************************)
(* JSON.stringify as the receiving end parses it: a property whose value   *)
(* is undefined is left out of an object, undefined in an array is null.   *)
(***************************************************************************)
RECURSIVE ToJSON(_)
ToJSON(v) ==
    CASE IsObj(v) ->
            LET kept == {p \in DOMAIN v.obj : ~IsUndefined(v.obj[p])}
            IN  Obj([p \in kept |-> ToJSON(v.obj[p])])
      [] IsArr(v) ->
            Arr([i \in 1..Len(v.arr) |->
                    IF IsUndefined(v.arr[i]) THEN Null ELSE ToJSON(v.arr[i])])
      [] OTHER -> v

(***************************************************************************)
(* Util: the operation descriptors.                                        *)
(***************************************************************************)
\* util.increment(value = 1): the default replaces a missing or undefined value
increment(value) ==
    Obj([__op |-> Str("increment"),
         value |-> IF IsUndefined(value) THEN Num(1) ELSE value])

append(value) == Obj([__op |-> Str("append"), value |-> value])

prepend(value) == Obj([__op |-> Str("prepend"), value |-> value])

\* util.trim(): a descriptor without a value property
trim == Obj([__op |-> Str("trim")])

\* Util builds no delete descriptor; update() routes an object of this shape
DeleteDescriptor == Obj([__op |-> Str("delete")])

\* nor a set descriptor: an object with any other truthy __op takes the default branch
SetDescriptor(value) == Obj([__op |-> Str("set"), value |-> value])

(***************************************************************************)
(* Base.calculateExpires and the clock.                                    *)
(***************************************************************************)
\* the divisor of Math.floor(ms / 1000)
MsPerSecond == 1000

\* Math.floor(ms / 1000): \div rounds towards minus infinity, as Math.floor does
FloorSeconds(ms) == ms \div MsPerSecond

\* the ISO strings of the model and the instants new Date(s) parses them to
IsoInstant == [s \in {"1970-01-01T00:00:01.500Z"} |-> 1500]

\* new Date(v).getTime() for a Date or an ISO string
DateGetTime(v) ==
    IF IsDate(v) THEN v.date ELSE IsoInstant[v.str]

\* `options.expireIn || options.expireAt`, the guard of every injection
WantsExpires(options) ==
    Truthy(Get(options, "expireIn")) \/ Truthy(Get(options, "expireAt"))

\* whether calculateExpires reads the clock: only its expireIn branch does
ReadsClock(options) ==
    /\ WantsExpires(options)
    /\ ~Truthy(Get(options, "expireAt"))

\* calculateExpires with its two tests in the other order: expireIn first
calculateExpires_ExpireInFirst(expireIn, expireAt, now) ==
    IF Truthy(expireIn) THEN Num(FloorSeconds(now) + expireIn.num)
    ELSE IF Truthy(expireAt) THEN Num(FloorSeconds(DateGetTime(expireAt)))
    ELSE Undefined

\* calculateExpires(expireIn, expireAt), now the value Date.now() returns to it
calculateExpires(expireIn, expireAt, now) ==
    IF Truthy(expireAt) THEN Num(FloorSeconds(DateGetTime(expireAt)))
    ELSE IF Truthy(expireIn) THEN Num(FloorSeconds(now) + expireIn.num)
    ELSE Undefined

(***************************************************************************)
(* Base.put and Base.insert: the payload.                                  *)
(***************************************************************************)
\* itemsArray with the spread after the key, { key, ...items }: the item's own key wins
PutItemsArray_ItemKeyWins(items, key) ==
    IF IsArray(items)
    THEN [i \in 1..Len(items.arr) |-> Obj(Spread(items.arr[i]))]
    ELSE <<Obj([p \in (DOMAIN Spread(items)) \cup {"key"} |->
                IF p \in DOMAIN Spread(items) THEN Spread(items)[p] ELSE key])>>

\* itemsArray with the key argument injected into the elements of a list as well
PutItemsArray_KeyInEveryItem(items, key) ==
    IF IsArray(items)
    THEN [i \in 1..Len(items.arr) |-> Obj(SetProp(Spread(items.arr[i]), "key", key))]
    ELSE <<Obj(SetProp(Spread(items), "key", key))>>

\* itemsArray of put before the expiration is injected
PutItemsArray(items, key) ==
    IF IsArray(items)
    THEN [i \in 1..Len(items.arr) |-> Obj(Spread(items.arr[i]))]
    ELSE <<Obj(SetProp(Spread(items), "key", key))>>

\* the forEach of put: item i gets the value calculateExpires computes from the
\* i-th clock reading (clock[i]; read only by the expireIn branch)
PutInjectExpires(itemsArray, options, clock) ==
    [i \in 1..Len(itemsArray) |->
        IF WantsExpires(options)
        THEN Obj(SetProp(itemsArray[i].obj, "__expires",
                     calculateExpires(Get(options, "expireIn"),
                                      Get(options, "expireAt"), clock[i])))
        ELSE itemsArray[i]]

\* the caller's items after a put whose itemsArray held the caller's own objects
\* (itemsArray = items, [items]): the key and the forEach would write into them
PutLeavesCaller_NoCopy(items, key, options, clock) ==
    IF IsArray(items)
    THEN Arr(PutInjectExpires(items.arr, options, clock))
    ELSE PutInjectExpires(<<Obj(SetProp(Spread(items), "key", key))>>, options, clock)[1]

\* the caller's items after put: itemsArray holds copies, { ...item } and
\* { ...items, key }, so the writes of put reach no object of the caller
PutLeavesCaller(items, key, options, clock) == items

\* the body put hands to _fetch: { items: itemsArray }
PutBody(items, key, options, clock) ==
    Obj([items |-> Arr(PutInjectExpires(PutItemsArray(items, key), options, clock))])

\* itemToInsert of insert
InsertItem(item, key, options, now) ==
    LET copied == Spread(item)
        keyed == IF Truthy(key) THEN SetProp(copied, "key", key) ELSE copied
    IN  IF WantsExpires(options)
        THEN SetProp(keyed, "__expires",
                 calculateExpires(Get(options, "expireIn"),
                                  Get(options, "expireAt"), now))
        ELSE keyed

\* the caller's item after insert: itemToInsert is a copy, { ...item }
InsertLeavesCaller(item, key, options, now) == item

\* the body insert hands to _fetch: { item: itemToInsert }
InsertBody(item, key, options, now) ==
    Obj([item |-> Obj(InsertItem(item, key, options, now))])

(***************************************************************************)
(* Base.update: the compiler of update requests.  An update request is the *)
(* sequence of the [field, value] entries of the updates object, in the    *)
(* order Object.entries yields them.                                       *)
(***************************************************************************)
\* processedUpdates as update() creates it
EmptyUpdates ==
    [set |-> EmptyProps, increment |-> EmptyProps, append |-> EmptyProps,
     prepend |-> EmptyProps, delete |-> <<>>]

\* the test without its first and last conjunct: typeof null is "object" too
IsOperation_TypeofOnly(value) ==
    TypeOf(value) = "object"

\* `value && typeof value === "object" && value.__op`
IsOperation(value) ==
    /\ Truthy(value)
    /\ TypeOf(value) = "object"
    /\ Truthy(Get(value, "__op"))

\* case "increment" without its break: control falls through into case "append"
IncrementCase_NoBreak(pu, field, value) ==
    [pu EXCEPT !.increment = SetProp(@, field, Get(value, "value")),
               !.append = SetProp(@, field, Get(value, "value"))]

\* case "increment": processedUpdates.increment[field] = value.value
IncrementCase(pu, field, value) ==
    [pu EXCEPT !.increment = SetProp(@, field, Get(value, "value"))]

\* case "append" writing the bucket of case "prepend"
AppendCase_IntoPrepend(pu, field, value) ==
    [pu EXCEPT !.prepend = SetProp(@, field, Get(value, "value"))]

\* case "append": processedUpdates.append[field] = value.value
AppendCase(pu, field, value) ==
    [pu EXCEPT !.append = SetProp(@, field, Get(value, "value"))]

\* case "prepend": processedUpdates.prepend[field] = value.value
PrependCase(pu, field, value) ==
    [pu EXCEPT !.prepend = SetProp(@, field, Get(value, "value"))]

\* case "delete": processedUpdates.delete.push(field)
DeleteCase(pu, field, value) ==
    [pu EXCEPT !.delete = Append(@, Str(field))]

\* the default case storing the descriptor itself, set[field] = value
DefaultCase_StoresDescriptor(pu, field, value) ==
    [pu EXCEPT !.set = SetProp(@, field, value)]

\* default: processedUpdates.set[field] = value.value
DefaultCase(pu, field, value) ==
    [pu EXCEPT !.set = SetProp(@, field, Get(value, "value"))]

\* one iteration of the loop of update(): the switch on value.__op
UpdateEntry(pu, field, value) ==
    IF IsOperation(value)
    THEN CASE Get(value, "__op") = Str("increment") -> IncrementCase(pu, field, value)
           [] Get(value, "__op") = Str("append") -> AppendCase(pu, field, value)
           [] Get(value, "__op") = Str("prepend") -> PrependCase(pu, field, value)
           [] Get(value, "__op") = Str("delete") -> DeleteCase(pu, field, value)
           [] OTHER -> DefaultCase(pu, field, value)
    ELSE [pu EXCEPT !.set = SetProp(@, field, value)]

\* the loop of update() over the first n entries
RECURSIVE ProcessEntries(_, _)
ProcessEntries(entries, n) ==
    IF n = 0 THEN EmptyUpdates
    ELSE UpdateEntry(ProcessEntries(entries, n - 1), entries[n][1], entries[n][2])

\* processedUpdates after the expiration is injected into set.__expires
UpdateInjectExpires(pu, options, now) ==
    IF WantsExpires(options)
    THEN [pu EXCEPT !.set = SetProp(@, "__expires",
                 calculateExpires(Get(options, "expireIn"),
                                  Get(options, "expireAt"), now))]
    ELSE pu

\* processedUpdates of update(updates, key, options)
ProcessedUpdates(entries, options, now) ==
    UpdateInjectExpires(ProcessEntries(entries, Len(entries)), options, now)

\* the caller's updates after update: the loop only reads its entries
UpdateLeavesCaller(entries, options, now) == entries

\* the body update hands to _fetch: { updates: processedUpdates }
UpdateBody(entries, options, now) ==
    LET pu == ProcessedUpdates(entries, options, now)
    IN  Obj([updates |-> Obj([set |-> Obj(pu.set),
                              increment |-> Obj(pu.increment),
                              append |-> Obj(pu.append),
                              prepend |-> Obj(pu.prepend),
                              delete |-> Arr(pu.delete)])])

(***************************************************************************)
(* Base.fetch and Base.putMany.                                            *)
(***************************************************************************)
\* `x || undefined`
OrUndefined(x) == IF Truthy(x) THEN x ELSE Undefined

\* queryParams of fetch(query, options)
QueryParams(query, options) ==
    Obj([query |-> OrUndefined(query),
         limit |-> OrUndefined(Get(options, "limit")),
         last |-> OrUndefined(Get(options, "last"))])

\* the guard without its second disjunct: the empty list passes
PutManyRejects_EmptyAllowed(items) ==
    ~IsArray(items)

\* the guard of putMany: `!Array.isArray(items) || items.length === 0` throws
PutManyRejects(items) ==
    IF ~IsArray(items) THEN TRUE ELSE Len(items.arr) = 0

(***************************************************************************)
(* The inputs of the model.                                                *)
(***************************************************************************)
\* the items callers put and insert
ItemObjects ==
    {Obj([a |-> Num(1)]),
     Obj([a |-> Num(1), key |-> Str("k0")]),
     Obj([a |-> Num(2), __expires |-> Num(7)])}

\* the lists of at most MaxItems items
ItemLists ==
    {Arr(s) : s \in UNION {[1..n -> ItemObjects] : n \in 0..MaxItems}}

\* what callers pass where a list is expected and is not one
NonLists == ItemObjects \cup {Null, Str("x")}

\* the key argument: left out (the default, null) or given
Keys == {Null, Str("k1")}

\* the values of options.expireIn and options.expireAt; undefined is a missing option
ExpireIns == {Undefined, Num(0), Num(60)}
ExpireAts == {Undefined, DateOf(2500), DateOf(-500), Str("1970-01-01T00:00:01.500Z")}

\* the options argument
OptionsOf(expireIn, expireAt) ==
    Obj([p \in {q \in {"expireIn", "expireAt"} :
                    ~IsUndefined(IF q = "expireIn" THEN expireIn ELSE expireAt)}
            |-> IF p = "expireIn" THEN expireIn ELSE expireAt])

Options == {OptionsOf(i, a) : i \in ExpireIns, a \in ExpireAts}

\* the field paths and the values of update requests
UpdateFields == {"a", "__expires"}

\* plain values are JSON values: a number, and null, which `value &&` finds falsy
PlainValues == {Num(9), Null}

Descriptors ==
    {increment(Undefined), append(Str("x")), prepend(Str("y")), trim,
     DeleteDescriptor, SetDescriptor(Num(3))}

UpdateValues == PlainValues \cup Descriptors

\* whether the entries name no field twice: the keys of an object are distinct
DistinctFields(entries) ==
    \A i, j \in 1..Len(entries) : entries[i][1] = entries[j][1] => i = j

\* { views: increment(1), tags: append("x"), bio: trim(), old: <delete> }
ExampleRequest ==
    << <<"views", increment(Num(1))>>, <<"tags", append(Str("x"))>>,
       <<"bio", trim>>, <<"old", DeleteDescriptor>> >>

\* the update requests: of at most MaxFields fields, and the example
UpdateRequests ==
    {ExampleRequest} \cup
    {e \in UNION {[1..n -> UpdateFields \X UpdateValues] : n \in 0..MaxFields} :
        DistinctFields(e)}

\* the values of the clock
Clock == {k * TickMs : k \in 0..MaxTicks}

\* the JSON bodies of the 2xx responses
ResponseBodies ==
    {Obj([key |-> Str("k1"), a |-> Num(1)]),
     Obj([items |-> Arr(<<Obj([key |-> Str("k1")])>>), last |-> Str("x"),
          count |-> Num(2), extra |-> Str("drop-me")])}

\* the filters and the options of fetch
Queries == {Undefined, Obj([a |-> Num(1)])}

FetchOptions ==
    {Obj(EmptyProps), Obj([limit |-> Num(10)]), Obj([limit |-> Num(0)]),
     Obj([last |-> Str("k1")]), Obj([limit |-> Num(10), last |-> Str("k1")])}

(***************************************************************************)
(* Base._fetch, up to its `await fetch(url, options)`.                     *)
(***************************************************************************)
NoCall == [op |-> "none"]
NoOwned == [none |-> TRUE]
NoRequest == [method |-> "none"]

\* the request _fetch(method, path, body = null) builds: `if (body)` adds the body
RequestOf(method, path, body) ==
    IF Truthy(body)
    THEN [method |-> method, path |-> path, body |-> ToJSON(body)]
    ELSE [method |-> method, path |-> path]

\* what _fetch writes to the console before it sends
SendLog == IF debug THEN <<"log: Sending request">> ELSE <<>>

\* _fetch(method, path, body) up to the await, for the invocation c
FetchSend(c, method, path, body, preLog) ==
    /\ pc' = "sent"
    /\ call' = c
    /\ request' = RequestOf(method, path, body)
    /\ nreq' = nreq + 1
    /\ log' = preLog \o SendLog
    /\ UNCHANGED <<outcome, result, threw, debug>>

\* the path `/items/${key}`
ItemPath(key) == <<"/items/", key>>

(***************************************************************************)
(* The public operations, up to the await.                                 *)
(***************************************************************************)
\* whether clock is what Date.now() can return to n successive reads from now on
ClockReads(clock, n) ==
    /\ clock \in [1..n -> Clock]
    /\ \A i \in 1..n : clock[i] >= nowMs
    /\ \A i \in 1..n, j \in 1..n : i <= j => clock[i] <= clock[j]

\* the number of clock reads of put: one per item, when the expireIn branch runs
PutReadCount(items, key, options) ==
    IF ReadsClock(options) THEN Len(PutItemsArray(items, key)) ELSE 0

\* put(items, key = null, options = {})
Put ==
    /\ pc = "idle"
    /\ \E items \in ItemObjects \cup ItemLists, key \in Keys, options \in Options :
        \E clock \in [1..PutReadCount(items, key, options) -> Clock] :
            /\ ClockReads(clock, PutReadCount(items, key, options))
            /\ reads' = clock
            /\ nowMs' = IF clock = <<>> THEN nowMs ELSE clock[Len(clock)]
            /\ owned' = PutLeavesCaller(items, key, options,
                                 IF ReadsClock(options) THEN clock
                                 ELSE [i \in 1..Len(PutItemsArray(items, key)) |-> nowMs])
            /\ FetchSend([op |-> "put", items |-> items, key |-> key, options |-> options],
                         "PUT", <<"/items">>,
                         PutBody(items, key, options,
                                 IF ReadsClock(options) THEN clock
                                 ELSE [i \in 1..Len(PutItemsArray(items, key)) |-> nowMs]),
                         <<>>)

\* putMany(items) with a non-empty list: put(items)
PutMany ==
    /\ pc = "idle"
    /\ \E items \in ItemLists \cup NonLists :
        /\ ~PutManyRejects(items)
        /\ reads' = <<>>
        /\ owned' = PutLeavesCaller(items, Null, Obj(EmptyProps),
                                    [i \in 1..Len(items.arr) |-> nowMs])
        /\ FetchSend([op |-> "putMany", items |-> items],
                     "PUT", <<"/items">>,
                     PutBody(items, Null, Obj(EmptyProps),
                             [i \in 1..Len(items.arr) |-> nowMs]),
                     <<>>)
    /\ UNCHANGED nowMs

\* putMany(items) with anything else: throws before any request
PutManyThrows ==
    /\ pc = "idle"
    /\ \E items \in ItemLists \cup NonLists :
        /\ PutManyRejects(items)
        /\ call' = [op |-> "putMany", items |-> items]
        /\ owned' = items
    /\ pc' = "done"
    /\ threw' = "Error: putMany requires an array of items with at least one item"
    /\ UNCHANGED <<reads, request, nreq, outcome, result, log, nowMs, debug>>

\* insert(item, key = null, options = {})
Insert ==
    /\ pc = "idle"
    /\ \E item \in ItemObjects, key \in Keys, options \in Options :
        /\ reads' = IF ReadsClock(options) THEN <<nowMs>> ELSE <<>>
        /\ owned' = InsertLeavesCaller(item, key, options, nowMs)
        /\ FetchSend([op |-> "insert", item |-> item, key |-> key, options |-> options],
                     "POST", <<"/items">>, InsertBody(item, key, options, nowMs), <<>>)
    /\ UNCHANGED nowMs

\* get(key)
Get_ ==
    /\ pc = "idle"
    /\ \E key \in Keys \ {Null} :
        FetchSend([op |-> "get", key |-> key], "GET", ItemPath(key), Null, <<>>)
    /\ UNCHANGED <<reads, nowMs, owned>>

\* delete(key)
Delete ==
    /\ pc = "idle"
    /\ \E key \in Keys \ {Null} :
        FetchSend([op |-> "delete", key |-> key], "DELETE", ItemPath(key), Null, <<>>)
    /\ UNCHANGED <<reads, nowMs, owned>>

\* update(updates, key, options = {})
Update ==
    /\ pc = "idle"
    /\ \E updates \in UpdateRequests, key \in Keys \ {Null}, options \in Options :
        /\ reads' = IF ReadsClock(options) THEN <<nowMs>> ELSE <<>>
        /\ owned' = UpdateLeavesCaller(updates, options, nowMs)
        /\ FetchSend([op |-> "update", updates |-> updates, key |-> key,
                      options |-> options],
                     "PATCH", ItemPath(key), UpdateBody(updates, options, nowMs), <<>>)
    /\ UNCHANGED nowMs

\* fetch(query, options = {})
Fetch ==
    /\ pc = "idle"
    /\ \E query \in Queries, options \in FetchOptions :
        FetchSend([op |-> "fetch", query |-> query, options |-> options],
                  "POST", <<"/query">>, QueryParams(query, options),
                  IF debug THEN <<"log: Fetch params sent to server">> ELSE <<>>)
    /\ UNCHANGED <<reads, nowMs, owned>>

(***************************************************************************)
(* Base._fetch after the await, and the return of the operation.           *)
(***************************************************************************)
\* what the transport does with a request
Outcomes == {"ok", "ok, body is not JSON", "404", "non-2xx", "non-2xx, body unreadable",
             "network failure"}

\* the outcomes with no 2xx response
FailingOutcomes == {"404", "non-2xx", "non-2xx, body unreadable", "network failure"}

\* _fetch without its catch: the rejection of fetch() reaches the caller
FetchReturn_NoCatch(o, json) ==
    CASE o = "ok" -> [value |-> json, threw |-> "none"]
      [] o = "ok, body is not JSON" -> [value |-> Undefined, threw |-> "SyntaxError"]
      [] o = "404" -> [value |-> Undefined, threw |-> "none"]
      [] o = "non-2xx" -> [value |-> Undefined, threw |-> "none"]
      [] o = "non-2xx, body unreadable" -> [value |-> Undefined, threw |-> "TypeError"]
      [] o = "network failure" -> [value |-> Undefined, threw |-> "FetchError"]

\* what _fetch returns or throws on outcome o, json the body of a 2xx response:
\* `return response.json()` is not awaited inside the try, so its rejection is
\* not caught
FetchReturn(o, json) ==
    CASE o = "ok" -> [value |-> json, threw |-> "none"]
      [] o = "ok, body is not JSON" -> [value |-> Undefined, threw |-> "SyntaxError"]
      [] o = "404" -> [value |-> Undefined, threw |-> "none"]
      [] o = "non-2xx" -> [value |-> Undefined, threw |-> "none"]
      [] o = "non-2xx, body unreadable" -> [value |-> Undefined, threw |-> "none"]
      [] o = "network failure" -> [value |-> Undefined, threw |-> "none"]

\* what _fetch writes to the console on outcome o
FetchLog(o) ==
    CASE o = "non-2xx" -> <<"error: HTTP error!">>
      [] o \in {"non-2xx, body unreadable", "network failure"} ->
            IF debug THEN <<"error: Request failed">> ELSE <<>>
      [] OTHER -> <<>>

\* the end of fetch(): `response.items` of an undefined response throws
FetchUnwrap(r) ==
    IF r.threw # "none" THEN r
    ELSE IF IsUndefined(r.value) \/ r.value = Null
         THEN [value |-> Undefined, threw |-> "TypeError"]
         ELSE [value |-> Obj([items |-> Get(r.value, "items"),
                              last |-> Get(r.value, "last"),
                              count |-> Get(r.value, "count")]),
               threw |-> "none"]

\* what the operation op makes of what _fetch returned: all but fetch return it
OperationReturn(op, r) ==
    IF op = "fetch" THEN FetchUnwrap(r) ELSE r

\* a transport that sends the request once more after a failing outcome
Respond_Retries(o, json) ==
    /\ pc = "sent"
    /\ IF o \in FailingOutcomes /\ nreq < 2
       THEN /\ pc' = "sent"
            /\ nreq' = nreq + 1
            /\ log' = log \o FetchLog(o) \o SendLog
            /\ UNCHANGED <<outcome, result, threw>>
       ELSE /\ pc' = "done"
            /\ outcome' = o
            /\ result' = OperationReturn(call.op, FetchReturn(o, json)).value
            /\ threw' = OperationReturn(call.op, FetchReturn(o, json)).threw
            /\ log' = log \o FetchLog(o)
            /\ UNCHANGED nreq
    /\ UNCHANGED <<call, reads, request, nowMs, debug, owned>>

\* the transport answers, _fetch and the operation finish
Respond(o, json) ==
    /\ pc = "sent"
    /\ pc' = "done"
    /\ outcome' = o
    /\ result' = OperationReturn(call.op, FetchReturn(o, json)).value
    /\ threw' = OperationReturn(call.op, FetchReturn(o, json)).threw
    /\ log' = log \o FetchLog(o)
    /\ UNCHANGED <<call, reads, request, nreq, nowMs, debug, owned>>

RespondOk == \E json \in ResponseBodies : Respond("ok", json)

RespondNotJSON == Respond("ok, body is not JSON", Undefined)

RespondNotFound == Respond("404", Undefined)

RespondHttpError == Respond("non-2xx", Undefined)

RespondUnreadable == Respond("non-2xx, body unreadable", Undefined)

NetworkFailure == Respond("network failure", Undefined)

\* the caller has the result; the next invocation starts from a clean slate
Return ==
    /\ pc = "done"
    /\ pc' = "idle"
    /\ call' = NoCall
    /\ reads' = <<>>
    /\ request' = NoRequest
    /\ nreq' = 0
    /\ outcome' = "none"
    /\ result' = Undefined
    /\ threw' = "none"
    /\ log' = <<>>
    /\ owned' = NoOwned
    /\ UNCHANGED <<nowMs, debug>>

\* time passes between invocations; within one, only put reads the clock more
\* than once, and ClockReads lets time pass between its reads
Tick ==
    /\ pc = "idle"
    /\ nowMs + TickMs \in Clock
    /\ nowMs' = nowMs + TickMs
    /\ UNCHANGED <<pc, call, reads, request, nreq, outcome, result, threw, log, debug, owned>>

Init ==
    /\ pc = "idle"
    /\ call = NoCall
    /\ reads = <<>>
    /\ request = NoRequest
    /\ nreq = 0
    /\ outcome = "none"
    /\ result = Undefined
    /\ threw = "none"
    /\ log = <<>>
    /\ nowMs = 0
    /\ debug \in BOOLEAN
    /\ owned = NoOwned

Next ==
    \/ Put
    \/ PutMany
    \/ PutManyThrows
    \/ Insert
    \/ Get_
    \/ Delete
    \/ Update
    \/ Fetch
    \/ RespondOk
    \/ RespondNotJSON
    \/ RespondNotFound
    \/ RespondHttpError
    \/ RespondUnreadable
    \/ NetworkFailure
    \/ Return
    \/ Tick

Spec == Init /\ [][Next]_vars

(***************************************************************************)
(* What the claims speak of.  The Compiled Update is what update() sends:  *)
(* the processedUpdates object as the request body carries it.             *)
(***************************************************************************)
\* an update() invocation has sent its request
UpdateSent == pc # "idle" /\ call.op = "update"

\* the Compiled Update on the wire: bucket name -> bucket
Compiled == request.body.obj["updates"].obj

MapBuckets == {"set", "increment", "append", "prepend"}

BucketNames == MapBuckets \cup {"delete"}

\* whether path p is present in bucket b of the Compiled Update
InBucket(b, p) ==
    IF b = "delete"
    THEN \E i \in 1..Len(Compiled["delete"].arr) : Compiled["delete"].arr[i] = Str(p)
    ELSE p \in DOMAIN Compiled[b].obj

\* the buckets path p is present in
BucketsOf(p) == {b \in BucketNames : InBucket(b, p)}

\* the field paths of the update request, and every path of the model
RequestPaths == {call.updates[i][1] : i \in 1..Len(call.updates)}

AllPaths == UpdateFields \cup {ExampleRequest[i][1] : i \in 1..Len(ExampleRequest)}

\* the value the request gives path p
RequestValue(p) ==
    call.updates[CHOOSE i \in 1..Len(call.updates) : call.updates[i][1] = p][2]

\* the option is supplied: the options object has the property
Supplied(options, name) == name \in DOMAIN options.obj

\* an expiration option of the invocation resolves to a timestamp
ExpirationResolves == WantsExpires(call.options)

\* the bucket the kind of a descriptor names
KindOf(v) == v.obj["__op"].str

\* the whole seconds of the instant ms, without a division
WholeSeconds(ms) ==
    CHOOSE n \in -10..100 : n * 1000 <= ms /\ ms < (n + 1) * 1000

\* the instant an expireAt of the model names, in milliseconds
InstantOf(expireAt) ==
    CASE expireAt = DateOf(2500) -> 2500
      [] expireAt = DateOf(-500) -> -500
      [] expireAt = Str("1970-01-01T00:00:01.500Z") -> 1500

\* the timestamp the expiration options resolve to when the clock reads now:
\* expireAt before expireIn
ResolvedExpires(options, now) ==
    IF Supplied(options, "expireAt")
    THEN Num(WholeSeconds(InstantOf(options.obj["expireAt"])))
    ELSE Num(WholeSeconds(now) + options.obj["expireIn"].num)

\* what the clock read when insert or update resolved the expiration
CallClock == IF reads = <<>> THEN nowMs ELSE reads[1]

\* the bucket the expiration adds path p to: set, for "__expires" alone
Injected(p) ==
    IF p = "__expires" /\ ExpirationResolves THEN {"set"} ELSE {}

\* a descriptor that carries no value and is not a delete: trim
Valueless(v) ==
    /\ v \in Descriptors
    /\ "value" \notin DOMAIN v.obj
    /\ KindOf(v) # "delete"

(***************************************************************************)
(* C1  Each field path in exactly one bucket.                              *)
(***************************************************************************)
\* C1 as claimed: in the Compiled Update of every update() no path is present in two
\* buckets, and every path of the request is present in exactly one.
C1_ExactlyOneBucket ==
    UpdateSent =>
        /\ \A p \in AllPaths : Cardinality(BucketsOf(p)) <= 1
        /\ \A p \in RequestPaths : Cardinality(BucketsOf(p)) = 1

\* C1 as amended: every path other than an injected "__expires" is present in at
\* most one bucket; every path of the request is present in at least one unless its
\* descriptor carries no value (trim), and then only the injection adds it; when an
\* expiration option resolves, "__expires" is present in set and in at most one
\* other bucket; a path outside the request is present only as the injected one.
C1_BucketsPerPath ==
    UpdateSent =>
        \A p \in AllPaths :
            /\ Injected(p) = {} => Cardinality(BucketsOf(p)) <= 1
            /\ Injected(p) # {} =>
                    "set" \in BucketsOf(p) /\ Cardinality(BucketsOf(p)) <= 2
            /\ (p \in RequestPaths /\ ~Valueless(RequestValue(p))) =>
                    Cardinality(BucketsOf(p) \ Injected(p)) <= 1
                    /\ Cardinality(BucketsOf(p)) >= 1
            /\ (p \in RequestPaths /\ Valueless(RequestValue(p))) =>
                    BucketsOf(p) = Injected(p)
            /\ p \notin RequestPaths => BucketsOf(p) = Injected(p)

\* C1 witness: an update whose request routes "__expires" to increment and "a" to
\* set while an expiration resolves: "a" is in one bucket, "__expires" in two.
C1_Witness ==
    /\ UpdateSent
    /\ ExpirationResolves
    /\ RequestPaths = {"a", "__expires"}
    /\ BucketsOf("a") = {"set"}
    /\ BucketsOf("__expires") = {"increment", "set"}

(***************************************************************************)
(* C2  A request without descriptors goes to set.                          *)
(***************************************************************************)
\* the request of the invocation has no descriptor value
PlainRequest ==
    \A i \in 1..Len(call.updates) : call.updates[i][2] \in PlainValues

\* the buckets other than set are empty
OnlySet ==
    /\ \A b \in MapBuckets \ {"set"} : DOMAIN Compiled[b].obj = {}
    /\ Compiled["delete"].arr = <<>>

\* C2 as claimed: when no value of the request is a descriptor, every field of the
\* request is in set with its given value and the other four buckets are empty.
C2_PlainFieldsKeepValue ==
    (UpdateSent /\ PlainRequest) =>
        /\ \A p \in RequestPaths :
                InBucket("set", p) /\ Compiled["set"].obj[p] = RequestValue(p)
        /\ OnlySet

\* C2 as amended: when no value of the request is a descriptor, every field of the
\* request is in set, with its given value unless it is "__expires" and an expiration
\* option resolves (set then holds the resolved timestamp), set holds nothing else
\* but that timestamp, and the other four buckets are empty.
C2_PlainFieldsInSet ==
    (UpdateSent /\ PlainRequest) =>
        /\ DOMAIN Compiled["set"].obj =
                RequestPaths \cup (IF ExpirationResolves THEN {"__expires"} ELSE {})
        /\ \A p \in RequestPaths :
                InBucket("set", p)
                /\ Compiled["set"].obj[p] =
                        IF Injected(p) # {}
                        THEN ResolvedExpires(call.options, CallClock)
                        ELSE RequestValue(p)
        /\ OnlySet

\* C2 witness: an update of two plain fields, one of them "__expires", sent with an
\* expiration that resolves.
C2_Witness ==
    /\ UpdateSent
    /\ PlainRequest
    /\ ExpirationResolves
    /\ RequestPaths = {"a", "__expires"}
    /\ Compiled["set"].obj["a"] = Num(9)

(***************************************************************************)
(* C3  A descriptor goes to the bucket of its kind.                        *)
(***************************************************************************)
\* the paths of the request given a descriptor of one of the kinds
PathsOfKind(kinds) ==
    {p \in RequestPaths :
        RequestValue(p) \in Descriptors /\ KindOf(RequestValue(p)) \in kinds}

\* C3 as claimed: an increment, append or prepend descriptor stores path -> value in
\* the bucket of its kind and the path is in no other bucket; a delete descriptor puts
\* the path on the delete list and the path is in no other bucket.
C3_DescriptorInItsBucketOnly ==
    UpdateSent =>
        /\ \A p \in PathsOfKind({"increment", "append", "prepend"}) :
                /\ BucketsOf(p) = {KindOf(RequestValue(p))}
                /\ Compiled[KindOf(RequestValue(p))].obj[p] = RequestValue(p).obj["value"]
        /\ \A p \in PathsOfKind({"delete"}) : BucketsOf(p) = {"delete"}

\* C3 as amended: the same, except that the path "__expires" is in set as well when an
\* expiration option resolves.
C3_DescriptorInItsBucket ==
    UpdateSent =>
        /\ \A p \in PathsOfKind({"increment", "append", "prepend"}) :
                /\ BucketsOf(p) = {KindOf(RequestValue(p))} \cup Injected(p)
                /\ Compiled[KindOf(RequestValue(p))].obj[p] = RequestValue(p).obj["value"]
        /\ \A p \in PathsOfKind({"delete"}) :
                /\ BucketsOf(p) = {"delete"} \cup Injected(p)
                /\ Cardinality({i \in 1..Len(Compiled["delete"].arr) :
                                    Compiled["delete"].arr[i] = Str(p)}) = 1

\* C3 witness: an update that appends to "a" and deletes "__expires", in this order.
C3_Witness ==
    /\ UpdateSent
    /\ call.updates = << <<"a", append(Str("x"))>>, <<"__expires", DeleteDescriptor>> >>
    /\ Compiled["append"].obj = [a |-> Str("x")]
    /\ Compiled["delete"].arr = <<Str("__expires")>>

(***************************************************************************)
(* C4  A trim descriptor adds nothing.                                     *)
(***************************************************************************)
\* { set: {}, increment: { views: 1 }, append: { tags: "x" }, prepend: {}, delete: ["old"] }
ExampleCompiled ==
    [set |-> Obj(EmptyProps),
     increment |-> Obj([views |-> Num(1)]),
     append |-> Obj([tags |-> Str("x")]),
     prepend |-> Obj(EmptyProps),
     delete |-> Arr(<<Str("old")>>)]

\* the example request, sent without an expiration option
ExampleSent ==
    /\ UpdateSent
    /\ call.updates = ExampleRequest
    /\ call.options = Obj(EmptyProps)

\* C4 as claimed: the example compiles to exactly ExampleCompiled, and the path of a
\* trim descriptor is in none of set, increment, append, prepend and delete.
C4_TrimInNoBucket ==
    /\ ExampleSent => Compiled = ExampleCompiled
    /\ UpdateSent => \A p \in RequestPaths : RequestValue(p) = trim => BucketsOf(p) = {}

\* C4 as amended: the example compiles to exactly ExampleCompiled, and the path of a
\* trim descriptor is in none of the five buckets, except that "__expires" is in set,
\* with the resolved timestamp, when an expiration option resolves.
C4_TrimAddsNoPath ==
    /\ ExampleSent => Compiled = ExampleCompiled
    /\ UpdateSent =>
        \A p \in RequestPaths :
            RequestValue(p) = trim =>
                /\ BucketsOf(p) = Injected(p)
                /\ Injected(p) # {} =>
                        Compiled["set"].obj[p] = ResolvedExpires(call.options, CallClock)

\* C4 witness: the example request has been sent.
C4_Witness == ExampleSent /\ RequestValue("bio") = trim

(***************************************************************************)
(* The payloads of put and insert.                                         *)
(***************************************************************************)
PutSent == pc # "idle" /\ call.op = "put"

InsertSent == pc # "idle" /\ call.op = "insert"

\* the items put sent, and the item insert sent
SentItems == request.body.obj["items"].arr

SentItem == request.body.obj["item"]

\* the item objects the caller passed to put, in order
CallerItems == IF IsArr(call.items) THEN call.items.arr ELSE <<call.items>>

\* the "__expires" values the invocation sent, one per item or update
SentExpires ==
    CASE call.op = "put" ->
            [i \in 1..Len(SentItems) |-> Get(SentItems[i], "__expires")]
      [] call.op = "insert" -> <<Get(SentItem, "__expires")>>
      [] call.op = "update" -> <<Get(Compiled["set"], "__expires")>>

\* put, insert or update has sent its request
WriteSent == PutSent \/ InsertSent \/ UpdateSent

(***************************************************************************)
(* C5  expireAt takes precedence over expireIn.                            *)
(***************************************************************************)
\* C5: whenever expireAt = T and expireIn = S are both supplied to put, insert or
\* update, every "__expires" of the payload is the whole seconds of T (and so is not
\* computed from the clock and S).
C5_ExpireAtTakesPrecedence ==
    (/\ WriteSent
     /\ Supplied(call.options, "expireAt")
     /\ Supplied(call.options, "expireIn")) =>
        \A i \in 1..Len(SentExpires) :
            SentExpires[i] = Num(WholeSeconds(InstantOf(call.options.obj["expireAt"])))

\* C5 witness: a put of two items with expireIn = 60 and an expireAt of 2.5 s, sent
\* when the clock reads a second or more.
C5_Witness ==
    /\ PutSent
    /\ call.options = OptionsOf(Num(60), DateOf(2500))
    /\ Len(SentItems) = 2
    /\ nowMs >= 1000
    /\ SentExpires = <<Num(2), Num(2)>>

(***************************************************************************)
(* C6  expireIn counts from now.                                           *)
(***************************************************************************)
\* the "__expires" values the caller's own input carries into the payload
OwnExpires ==
    CASE call.op = "put" ->
            [i \in 1..Len(CallerItems) |-> Get(CallerItems[i], "__expires")]
      [] call.op = "insert" -> <<Get(call.item, "__expires")>>
      [] call.op = "update" ->
            <<IF "__expires" \in RequestPaths /\ InBucket("set", "__expires")
              THEN Get(Compiled["set"], "__expires") ELSE Undefined>>

\* C6: whenever expireIn = S is supplied to put, insert or update and expireAt is
\* not, every "__expires" of the payload is the whole seconds of a clock reading of
\* the invocation plus S; when neither is supplied no "__expires" is written.
C6_ExpireInAddsToNow ==
    /\ (/\ WriteSent
        /\ Supplied(call.options, "expireIn")
        /\ ~Supplied(call.options, "expireAt")) =>
            \A i \in 1..Len(SentExpires) :
                \E t \in Clock :
                    /\ t <= nowMs
                    /\ SentExpires[i] =
                            Num(WholeSeconds(t) + call.options.obj["expireIn"].num)
    /\ (/\ WriteSent
        /\ ~Supplied(call.options, "expireIn")
        /\ ~Supplied(call.options, "expireAt")) =>
            SentExpires = OwnExpires

(***************************************************************************)
(* C7  put of a single object with a key.                                  *)
(***************************************************************************)
\* put was called with a single object and a key
SinglePutWithKey ==
    /\ PutSent
    /\ call.items \in ItemObjects
    /\ call.key # Null

\* C7: put with a single object and a key sends { items: [x] } with exactly one x;
\* x.key is the supplied key and x has every field of the caller's object: the other
\* fields keep their values, "__expires" being the resolved timestamp when an
\* expiration option resolves; { a: 1 } with key "k1" is sent as
\* { items: [{ a: 1, key: "k1" }] }.
C7_SingleObjectGetsKey ==
    SinglePutWithKey =>
        /\ DOMAIN request.body.obj = {"items"}
        /\ Len(SentItems) = 1
        /\ SentItems[1].obj["key"] = call.key
        /\ \A f \in DOMAIN call.items.obj :
                /\ f \in DOMAIN SentItems[1].obj
                /\ f \notin {"key", "__expires"} => SentItems[1].obj[f] = call.items.obj[f]
                /\ (f = "__expires" /\ ~ExpirationResolves) =>
                        SentItems[1].obj[f] = call.items.obj[f]
        /\ (call.items = Obj([a |-> Num(1)]) /\ call.options = Obj(EmptyProps)) =>
                request.body = Obj([items |-> Arr(<<Obj([a |-> Num(1), key |-> Str("k1")])>>)])

\* C7 witness: put({ a: 1, key: "k0" }, "k1") has sent the item with key "k1".
C7_Witness ==
    /\ SinglePutWithKey
    /\ call.items = Obj([a |-> Num(1), key |-> Str("k0")])
    /\ SentItems = <<Obj([a |-> Num(1), key |-> Str("k1")])>>

(***************************************************************************)
(* C8  put of a list.                                                      *)
(***************************************************************************)
\* f restricted to the properties other than "__expires"
WithoutExpires(f) == [p \in (DOMAIN f) \ {"__expires"} |-> f[p]]

\* C8: put with a list sends as many elements, the i-th sent element being the i-th
\* element of the list (its fields other than an injected "__expires" unchanged); an
\* element has a key exactly when the caller's has one, with the caller's value, so
\* the key argument is never injected.
C8_ListKeepsOrderAndKeys ==
    (PutSent /\ IsArr(call.items)) =>
        /\ Len(SentItems) = Len(call.items.arr)
        /\ \A i \in 1..Len(SentItems) :
                /\ WithoutExpires(SentItems[i].obj) = WithoutExpires(call.items.arr[i].obj)
                /\ Get(SentItems[i], "key") = Get(call.items.arr[i], "key")
                /\ "key" \in DOMAIN SentItems[i].obj <=> "key" \in DOMAIN call.items.arr[i].obj

\* C8 witness: put of a list of two different items, the second with a key of its
\* own, called with the key argument "k1".
C8_Witness ==
    /\ PutSent
    /\ call.key = Str("k1")
    /\ call.items = Arr(<<Obj([a |-> Num(2), __expires |-> Num(7)]),
                          Obj([a |-> Num(1), key |-> Str("k0")])>>)
    /\ Get(SentItems[1], "key") = Undefined
    /\ Get(SentItems[2], "key") = Str("k0")

(***************************************************************************)
(* C9  putMany requires a non-empty list.                                  *)
(***************************************************************************)
PutManyCalled == call.op = "putMany"

\* the argument of putMany is a list with at least one item
NonEmptyList == call.items \in ItemLists /\ call.items # Arr(<<>>)

\* C9: putMany of anything but a non-empty list fails with its error and issues no
\* HTTP request; putMany of a non-empty list does not fail so and sends all the
\* items, in number and order as given, as put does (PUT /items).
C9_PutManyNeedsNonEmptyList ==
    PutManyCalled =>
        /\ ~NonEmptyList =>
                /\ pc = "done"
                /\ threw = "Error: putMany requires an array of items with at least one item"
                /\ nreq = 0
                /\ request = NoRequest
        /\ NonEmptyList =>
                /\ pc \in {"sent", "done"}
                /\ threw # "Error: putMany requires an array of items with at least one item"
                /\ nreq = 1
                /\ request.method = "PUT" /\ request.path = <<"/items">>
                /\ request.body = Obj([items |-> call.items])

\* C9 witness: putMany([]) has thrown.
C9_Witness ==
    /\ PutManyCalled
    /\ call.items = Arr(<<>>)
    /\ pc = "done"
    /\ threw # "none"

(***************************************************************************)
(* C10  Failing transport outcomes give undefined.                         *)
(***************************************************************************)
\* C10: get, put, insert, delete and update return undefined, and throw nothing, on
\* every failing transport outcome: a 404, any other non-2xx response and a network
\* failure; the result of a 404 and of a network failure are the same.
C10_FailuresReturnUndefined ==
    (/\ pc = "done"
     /\ call.op \in {"get", "put", "insert", "delete", "update"}
     /\ outcome \in {"404", "non-2xx", "non-2xx, body unreadable", "network failure"}) =>
        /\ result = Undefined
        /\ threw = "none"

\* C10 witness: a get ended by a network failure.
C10_Witness ==
    /\ pc = "done"
    /\ call.op = "get"
    /\ outcome = "network failure"
    /\ result = Undefined

(***************************************************************************)
(* C11  fetch on an absent raw response.                                   *)
(***************************************************************************)
FetchCalled == pc # "idle" /\ call.op = "fetch"

\* the three fields fetch keeps of a raw response
Listing(json) ==
    Obj([items |-> Get(json, "items"), last |-> Get(json, "last"),
         count |-> Get(json, "count")])

\* C11: when the transport gives no result (a 404, any other non-2xx response, a
\* network failure), fetch returns undefined and throws nothing; when the raw
\* response is there, fetch returns its items, last and count and no other field.
C11_FetchPropagatesAbsent ==
    (FetchCalled /\ pc = "done") =>
        /\ outcome \in FailingOutcomes => (result = Undefined /\ threw = "none")
        /\ outcome = "ok" =>
                /\ threw = "none"
                /\ \E json \in ResponseBodies : result = Listing(json)

(***************************************************************************)
(* C12  The keys of the serialized query body.                             *)
(***************************************************************************)
QueryKeys == {"query", "limit", "last"}

\* the three arguments of the fetch under way, undefined where none was passed
FetchArguments ==
    [query |-> call.query, limit |-> Get(call.options, "limit"),
     last |-> Get(call.options, "last")]

\* C12: the serialized body of the query has the key query, limit or last exactly
\* when fetch was passed that argument, with the value passed, and no key of the
\* body is null; with none of the three passed the body has none of the keys.
C12_QueryKeysAsSupplied ==
    FetchCalled =>
        /\ \A k \in QueryKeys :
                (k \in DOMAIN request.body.obj) <=> ~IsUndefined(FetchArguments[k])
        /\ \A k \in DOMAIN request.body.obj :
                /\ k \in QueryKeys
                /\ request.body.obj[k] = FetchArguments[k]
                /\ request.body.obj[k] # Null

(***************************************************************************)
(* C13  One request per invocation.                                        *)
(***************************************************************************)
\* C13: an invocation of get, put, putMany, insert, delete, update or fetch has
\* issued at most one HTTP request at every moment, whatever the outcome: one once
\* _fetch has sent, none when putMany rejected its argument, and still one after
\* a failing outcome.
C13_AtMostOneRequest ==
    /\ nreq <= 1
    /\ pc = "idle" => nreq = 0
    /\ pc = "sent" => nreq = 1
    /\ pc = "done" => nreq = (IF request = NoRequest THEN 0 ELSE 1)

\* C13 witness: a putMany ended by a network failure, one request sent.
C13_Witness ==
    /\ pc = "done"
    /\ PutManyCalled
    /\ outcome = "network failure"
    /\ nreq = 1

(***************************************************************************)
(* C14  One expiry for the whole list.                                     *)
(***************************************************************************)
\* C14: put() with a list and an expiration option (one that resolves to a
\* timestamp; expireIn: 0 is the case of C6) sends every item with __expires,
\* and with the same value in all items of the call, however the clock moves
\* while the payload is prepared.
C14_ListSharesOneExpires ==
    (PutSent /\ IsArr(call.items) /\ ExpirationResolves) =>
        \A i \in 1..Len(SentItems), j \in 1..Len(SentItems) :
            /\ "__expires" \in DOMAIN SentItems[i].obj
            /\ Get(SentItems[i], "__expires") = Get(SentItems[j], "__expires")

(***************************************************************************)
(* C15  The caller's inputs are left alone.                                *)
(***************************************************************************)
\* the argument the caller owns: the items of put, the item of insert, the
\* updates of update
CallerInput ==
    CASE call.op = "put" -> call.items
      [] call.op = "insert" -> call.item
      [] call.op = "update" -> call.updates

C16_SingleObjectSentAsGiven ==
    (PutSent /\ ~IsArr(call.items) /\ call.key = Null) =>
        WithoutExpires(SentItems[1].obj) = WithoutExpires(call.items.obj)

(***************************************************************************)
(* C17  No console output without debug.                                   *)
(***************************************************************************)
\* C17: with db.debug false no operation writes to the console, whatever the
\* transport outcome: the detail of a failed request is logged only with debug.
C17_SilentWithoutDebug == ~debug => log = <<>>

====
